---- MODULE Spec2Model ----
(***************************************************************************)
(* Model of backend/warehouse_calc.py: WarehouseCalculator.to_cm and       *)
(* WarehouseCalculator.create_warehouse_layout.                            *)
(*                                                                         *)
(* Numbers.  Python floats are modelled as exact rationals <<n, d>> in     *)
(* lowest terms (d > 0), so every equality below is an equality of real    *)
(* numbers; rounding error, NaN and infinities are outside the model.      *)
(*                                                                         *)
(* Values.  A Python value that reaches to_cm is a tagged record:          *)
(*   [k |-> "none"]             None                                       *)
(*   [k |-> "num", v |-> q]     an int or float with value q               *)
(*   [k |-> "str", s |-> cs]    a str, cs its sequence of characters       *)
(*   [k |-> "obj"]              a value float() rejects with TypeError     *)
(*                              (a list, a dict, ...)                      *)
(* A unit is [k |-> "str", s |-> cs] or [k |-> "none"].                    *)
(***************************************************************************)
EXTENDS Integers, Sequences, FiniteSets, TLC

VARIABLES
    config,             \* the argument of create_warehouse_layout
    pc,                 \* position in the running call
    i, r, c, f,         \* loop counters of lines 66, 139, 146, 152
    current_x,          \* line 144 / 149 / 191
    aisles_data,        \* line 136
    workstations_data,  \* line 64
    outcome,            \* how the call ended: nothing yet, an exception, a layout
    tc_value, tc_unit,  \* the arguments of a direct call of to_cm
    tc_result           \* what that call did

vars == <<config, pc, i, r, c, f, current_x, aisles_data, workstations_data,
          outcome, tc_value, tc_unit, tc_result>>

----------------------------------------------------------------------------
(* Bounds of the model *)

MaxStrLen == 3          \* longest string handed to to_cm
MaxWorkstations == 2    \* largest num_workstations and len(workstation_configs)
MaxRows == 2
MaxFloors == 2
MaxAisles == 3
MaxGaps == 2            \* longest custom_gaps list
MaxPallets == 2         \* longest pallet_configs list

----------------------------------------------------------------------------
(* Exact rational arithmetic *)

RECURSIVE GCD(_, _)
GCD(a, b) == IF b = 0 THEN a ELSE GCD(b, a % b)

Abs(a) == IF a < 0 THEN -a ELSE a

Rat(n, d) ==
    LET s == IF d < 0 THEN -1 ELSE 1
        g == GCD(Abs(n), Abs(d))
    IN  <<(s * n) \div g, (s * d) \div g>>

Int2Rat(n) == <<n, 1>>
Zero == <<0, 1>>

RAdd(p, q) == Rat(p[1] * q[2] + q[1] * p[2], p[2] * q[2])
RSub(p, q) == Rat(p[1] * q[2] - q[1] * p[2], p[2] * q[2])
RMul(p, q) == Rat(p[1] * q[1], p[2] * q[2])
RDivInt(p, n) == Rat(p[1], p[2] * n)      \* n # 0
RLt(p, q) == p[1] * q[2] < q[1] * p[2]
RLe(p, q) == p[1] * q[2] <= q[1] * p[2]

RECURSIVE RSum(_)
RSum(s) == IF s = <<>> THEN Zero ELSE RAdd(Head(s), RSum(Tail(s)))

Prefix(s, n) == IF n <= 0 THEN <<>> ELSE SubSeq(s, 1, IF n < Len(s) THEN n ELSE Len(s))

----------------------------------------------------------------------------
(* float(value) on a str, for strings over the alphabet Chars:             *)
(* [sign] digits ["." [digits]]  |  [sign] "." digits ; anything else is   *)
(* a ValueError.                                                           *)

Digits == <<"0", "1", "2", "3", "4", "5", "6", "7", "8", "9">>
IsDigit(ch) == \E k \in 1..10 : Digits[k] = ch
DigitVal(ch) == (CHOOSE k \in 1..10 : Digits[k] = ch) - 1

RECURSIVE DigitsVal(_)
DigitsVal(s) ==
    IF s = <<>> THEN 0
    ELSE DigitsVal(SubSeq(s, 1, Len(s) - 1)) * 10 + DigitVal(s[Len(s)])

RECURSIVE Pow10(_)
Pow10(n) == IF n = 0 THEN 1 ELSE 10 * Pow10(n - 1)

AllDigits(s) == \A k \in 1..Len(s) : IsDigit(s[k])

Parsed(q) == [ok |-> TRUE, v |-> q]
Unparsed == [ok |-> FALSE]

ParseUnsigned(s) ==
    LET dots == {k \in 1..Len(s) : s[k] = "."}
    IN  IF dots = {} THEN
            IF s # <<>> /\ AllDigits(s) THEN Parsed(Int2Rat(DigitsVal(s))) ELSE Unparsed
        ELSE
            LET p == CHOOSE k \in dots : TRUE
                ip == SubSeq(s, 1, p - 1)
                fp == SubSeq(s, p + 1, Len(s))
            IN  IF Cardinality(dots) = 1 /\ AllDigits(ip) /\ AllDigits(fp)
                   /\ Len(ip) + Len(fp) > 0
                THEN Parsed(Rat(DigitsVal(ip) * Pow10(Len(fp)) + DigitsVal(fp),
                                Pow10(Len(fp))))
                ELSE Unparsed

ParseFloat(s) ==
    IF s # <<>> /\ s[1] = "-" THEN
        LET u == ParseUnsigned(Tail(s))
        IN  IF u.ok THEN Parsed(RSub(Zero, u.v)) ELSE Unparsed
    ELSE IF s # <<>> /\ s[1] = "+" THEN ParseUnsigned(Tail(s))
    ELSE ParseUnsigned(s)

----------------------------------------------------------------------------
(* str.lower() and the conversion table *)

UpperLetters == <<"A", "B", "C", "D", "E", "F", "G", "H", "I", "J", "K", "L", "M",
                  "N", "O", "P", "Q", "R", "S", "T", "U", "V", "W", "X", "Y", "Z">>
LowerLetters == <<"a", "b", "c", "d", "e", "f", "g", "h", "i", "j", "k", "l", "m",
                  "n", "o", "p", "q", "r", "s", "t", "u", "v", "w", "x", "y", "z">>

LowerChar(ch) ==
    IF \E k \in 1..26 : UpperLetters[k] = ch
    THEN LowerLetters[CHOOSE k \in 1..26 : UpperLetters[k] = ch]
    ELSE ch

Lower(s) == [k \in 1..Len(s) |-> LowerChar(s[k])]

conversion_factors(u) ==
    CASE u = <<"c", "m">> -> <<1, 1>>
      [] u = <<"m">> -> <<100, 1>>
      [] u = <<"k", "m">> -> <<100000, 1>>
      [] u = <<"i", "n">> -> <<127, 50>>
      [] u = <<"f", "t">> -> <<762, 25>>
      [] u = <<"y", "d">> -> <<2286, 25>>
      [] u = <<"m", "m">> -> <<1, 10>>
      [] OTHER -> <<1, 1>>                  \* .get(..., 1.0)

MIN_RACK_WIDTH_CM_Zero == <<0, 1>>
MIN_RACK_WIDTH_CM == <<1, 1>>
MIN_RACK_LENGTH_CM == <<1, 1>>
MIN_FLOOR_HEIGHT_CM == <<10, 1>>

----------------------------------------------------------------------------
(* to_cm *)

None == [k |-> "none"]
Num(n) == [k |-> "num", v |-> Int2Rat(n)]
NumQ(n, d) == [k |-> "num", v |-> Rat(n, d)]
Str(cs) == [k |-> "str", s |-> cs]
Obj == [k |-> "obj"]

Returns(q) == [ok |-> TRUE, v |-> q]
Raises(e) == [ok |-> FALSE, exc |-> e]

\* the try block of lines 17-20: the exceptions float() raises and which are caught
FloatOf(value) ==
    CASE value.k = "num" -> Returns(value.v)
      [] value.k = "str" ->
            IF ParseFloat(value.s).ok THEN Returns(ParseFloat(value.s).v)
            ELSE Raises("ValueError")
      [] OTHER -> Raises("TypeError")

to_cm(value, unit) ==
    IF value.k = "none" THEN Returns(Zero)
    ELSE LET val == FloatOf(value)
         IN  IF ~val.ok THEN
                 IF val.exc = "ValueError" THEN Returns(Zero) ELSE val
             ELSE IF unit.k # "str" THEN Raises("AttributeError")
             ELSE Returns(RMul(val.v, conversion_factors(Lower(unit.s))))

----------------------------------------------------------------------------
(* create_warehouse_layout: the locals, as functions of the argument cfg   *)
(* and of the 0-based workstation index idx                                *)

NoOutcome == [kind |-> "none"]
Exc(type, msg, ws) == [kind |-> "raise", exc |-> type, msg |-> msg, ws |-> ws]
Passed == [kind |-> "ok"]

wh_dim(cfg) == cfg.warehouse_dimensions
W_cm(cfg) == to_cm(wh_dim(cfg).width, wh_dim(cfg).unit)
L_cm(cfg) == to_cm(wh_dim(cfg).length, wh_dim(cfg).unit)
H_cm(cfg) == to_cm(wh_dim(cfg).height, wh_dim(cfg).unit)
W(cfg) == W_cm(cfg).v
L(cfg) == L_cm(cfg).v
H(cfg) == H_cm(cfg).v

n_workstations(cfg) == cfg.num_workstations
bg_cm(cfg) == to_cm(cfg.workstation_gap, cfg.workstation_gap_unit)
bg(cfg) == bg_cm(cfg).v

total_gaps(cfg) ==
    IF n_workstations(cfg) > 1
    THEN RMul(bg(cfg), Int2Rat(n_workstations(cfg) - 1))
    ELSE Zero

\* the width computed without taking the gaps off
workstation_w_GapsKept(cfg) ==
    IF n_workstations(cfg) > 0
    THEN RDivInt(W(cfg), n_workstations(cfg))
    ELSE Zero

workstation_w(cfg) ==
    IF n_workstations(cfg) > 0
    THEN RDivInt(RSub(W(cfg), total_gaps(cfg)), n_workstations(cfg))
    ELSE Zero

\* lines 35-62: the first exception of the checks before the loop, or Passed
GlobalChecks(cfg) ==
    IF ~W_cm(cfg).ok THEN Exc(W_cm(cfg).exc, "to_cm", 0)
    ELSE IF ~L_cm(cfg).ok THEN Exc(L_cm(cfg).exc, "to_cm", 0)
    ELSE IF ~H_cm(cfg).ok THEN Exc(H_cm(cfg).exc, "to_cm", 0)
    ELSE IF RLe(W(cfg), Zero) \/ RLe(L(cfg), Zero) \/ RLe(H(cfg), Zero)
        THEN Exc("ValueError", "Warehouse dimensions must be greater than zero", 0)
    ELSE IF ~bg_cm(cfg).ok THEN Exc(bg_cm(cfg).exc, "to_cm", 0)
    ELSE IF n_workstations(cfg) <= 0
        THEN Exc("ValueError", "Number of workstations must be at least 1", 0)
    ELSE IF RLt(bg(cfg), Zero)
        THEN Exc("ValueError", "Workstation gap cannot be negative", 0)
    ELSE IF RLe(W(cfg), total_gaps(cfg))
        THEN Exc("ValueError", "Total workstation gaps >= warehouse width", 0)
    ELSE IF RLe(workstation_w(cfg), Zero)
        THEN Exc("ValueError", "Computed workstation width is not positive", 0)
    ELSE Passed

b_conf(cfg, idx) == cfg.workstation_configs[idx + 1]
rc(cfg, idx) == b_conf(cfg, idx).aisle_config

workstation_start_x(cfg, idx) ==
    RMul(Int2Rat(idx), RAdd(workstation_w(cfg), bg(cfg)))

gf_cm(cfg, idx) == to_cm(rc(cfg, idx).gap_front, rc(cfg, idx).wall_gap_unit)
gb_cm(cfg, idx) == to_cm(rc(cfg, idx).gap_back, rc(cfg, idx).wall_gap_unit)
gl_cm(cfg, idx) == to_cm(rc(cfg, idx).gap_left, rc(cfg, idx).wall_gap_unit)
gr_cm(cfg, idx) == to_cm(rc(cfg, idx).gap_right, rc(cfg, idx).wall_gap_unit)
gf(cfg, idx) == gf_cm(cfg, idx).v
gb(cfg, idx) == gb_cm(cfg, idx).v
gl(cfg, idx) == gl_cm(cfg, idx).v
gr(cfg, idx) == gr_cm(cfg, idx).v

avail_w(cfg, idx) == RSub(RSub(workstation_w(cfg), gl(cfg, idx)), gr(cfg, idx))
avail_l(cfg, idx) == RSub(RSub(L(cfg), gf(cfg, idx)), gb(cfg, idx))

rows(cfg, idx) == rc(cfg, idx).num_rows
floors(cfg, idx) == rc(cfg, idx).num_floors
num_aisles(cfg, idx) == rc(cfg, idx).num_aisles

\* rc.get('custom_gaps', []): the key may be absent
raw_custom_gaps(cfg, idx) ==
    IF rc(cfg, idx).custom_gaps.present THEN rc(cfg, idx).custom_gaps.items ELSE <<>>

custom_gaps_cm(cfg, idx) ==
    [k \in 1..Len(raw_custom_gaps(cfg, idx)) |->
        to_cm(raw_custom_gaps(cfg, idx)[k], rc(cfg, idx).wall_gap_unit)]

custom_gaps(cfg, idx) ==
    [k \in 1..Len(raw_custom_gaps(cfg, idx)) |-> custom_gaps_cm(cfg, idx)[k].v]

\* the sum of the whole list, not of the gaps between the aisles
total_custom_gaps_WholeList(cfg, idx) ==
    IF custom_gaps(cfg, idx) # <<>> /\ num_aisles(cfg, idx) > 1
    THEN RSum(custom_gaps(cfg, idx))
    ELSE Zero

\* the slice taken one entry short
total_custom_gaps_OneShort(cfg, idx) ==
    IF custom_gaps(cfg, idx) # <<>> /\ num_aisles(cfg, idx) > 1
    THEN RSum(Prefix(custom_gaps(cfg, idx), num_aisles(cfg, idx) - 2))
    ELSE Zero

\* sum(custom_gaps[:num_aisles-1]) if custom_gaps and num_aisles > 1 else 0
total_custom_gaps(cfg, idx) ==
    IF custom_gaps(cfg, idx) # <<>> /\ num_aisles(cfg, idx) > 1
    THEN RSum(Prefix(custom_gaps(cfg, idx), num_aisles(cfg, idx) - 1))
    ELSE Zero

aisle_w(cfg, idx) ==
    IF num_aisles(cfg, idx) > 0
    THEN RDivInt(RSub(avail_w(cfg, idx), total_custom_gaps(cfg, idx)), num_aisles(cfg, idx))
    ELSE Zero

aisle_l(cfg, idx) ==
    IF rows(cfg, idx) > 0 THEN RDivInt(avail_l(cfg, idx), rows(cfg, idx)) ELSE Zero

floor_h(cfg, idx) ==
    IF floors(cfg, idx) > 0 THEN RDivInt(H(cfg), floors(cfg, idx)) ELSE Zero

\* the minimum-size checks without the one on the floor height
SizeChecks_HeightUnchecked(cfg, idx) ==
    IF RLt(aisle_w(cfg, idx), MIN_RACK_WIDTH_CM)
        THEN Exc("ValueError", "aisle width is too small", idx + 1)
    ELSE IF RLt(aisle_l(cfg, idx), MIN_RACK_LENGTH_CM)
        THEN Exc("ValueError", "aisle length is too small", idx + 1)
    ELSE Passed

\* lines 119-134: the three minimum-size checks, in the order of the code
SizeChecks(cfg, idx) ==
    IF RLt(aisle_w(cfg, idx), MIN_RACK_WIDTH_CM)
        THEN Exc("ValueError", "aisle width is too small", idx + 1)
    ELSE IF RLt(aisle_l(cfg, idx), MIN_RACK_LENGTH_CM)
        THEN Exc("ValueError", "aisle length is too small", idx + 1)
    ELSE IF RLt(floor_h(cfg, idx), MIN_FLOOR_HEIGHT_CM)
        THEN Exc("ValueError", "floor/aisle height is too small", idx + 1)
    ELSE Passed

\* the first list element whose conversion raises, 0 if none
FirstRaising(cms) ==
    IF \E k \in 1..Len(cms) : ~cms[k].ok
    THEN CHOOSE k \in 1..Len(cms) : ~cms[k].ok /\ \A j \in 1..(k - 1) : cms[j].ok
    ELSE 0

\* lines 70-134: the first exception of workstation idx's checks, or Passed
WorkstationChecks(cfg, idx) ==
    IF ~gf_cm(cfg, idx).ok THEN Exc(gf_cm(cfg, idx).exc, "to_cm", idx + 1)
    ELSE IF ~gb_cm(cfg, idx).ok THEN Exc(gb_cm(cfg, idx).exc, "to_cm", idx + 1)
    ELSE IF ~gl_cm(cfg, idx).ok THEN Exc(gl_cm(cfg, idx).exc, "to_cm", idx + 1)
    ELSE IF ~gr_cm(cfg, idx).ok THEN Exc(gr_cm(cfg, idx).exc, "to_cm", idx + 1)
    ELSE IF RLe(avail_w(cfg, idx), Zero)
        THEN Exc("ValueError", "wall gaps (left/right) consume all width", idx + 1)
    ELSE IF RLe(avail_l(cfg, idx), Zero)
        THEN Exc("ValueError", "wall gaps (front/back) consume all length", idx + 1)
    ELSE IF rows(cfg, idx) <= 0
        THEN Exc("ValueError", "number of rows must be at least 1", idx + 1)
    ELSE IF floors(cfg, idx) <= 0
        THEN Exc("ValueError", "number of floors must be at least 1", idx + 1)
    ELSE IF num_aisles(cfg, idx) <= 0
        THEN Exc("ValueError", "number of aisles must be at least 1", idx + 1)
    ELSE IF FirstRaising(custom_gaps_cm(cfg, idx)) # 0
        THEN Exc(custom_gaps_cm(cfg, idx)[FirstRaising(custom_gaps_cm(cfg, idx))].exc,
                 "to_cm", idx + 1)
    ELSE IF RLe(avail_w(cfg, idx), total_custom_gaps(cfg, idx))
        THEN Exc("ValueError", "sum of aisle gaps >= available workstation width", idx + 1)
    ELSE SizeChecks(cfg, idx)

\* line 141 and line 153
aisle_y(cfg, idx, row) == RAdd(gf(cfg, idx), RMul(Int2Rat(row), aisle_l(cfg, idx)))
aisle_z(cfg, idx, floor) == RMul(Int2Rat(floor), floor_h(cfg, idx))

\* the running x set once per workstation and carried over from row to row
row_start_x_CarriedOver(cfg, idx, row, x) ==
    IF row = 0 THEN RAdd(workstation_start_x(cfg, idx), gl(cfg, idx)) ELSE x

\* line 144: the running x is set anew at the start of every row, whatever
\* the row and the x the previous row ended at
row_start_x(cfg, idx, row, x) == RAdd(workstation_start_x(cfg, idx), gl(cfg, idx))

\* lines 148-149: the running x after the gap in front of column col (0-based)
AfterGap(cfg, idx, col, x) ==
    IF col > 0 /\ (col - 1) < Len(custom_gaps(cfg, idx))
    THEN RAdd(x, custom_gaps(cfg, idx)[col])      \* custom_gaps[c-1], 1-based here
    ELSE x

\* b_conf.get('pallet_configs', [])
pallet_configs(cfg, idx) ==
    IF b_conf(cfg, idx).pallet_configs.present
    THEN b_conf(cfg, idx).pallet_configs.items
    ELSE <<>>

\* p.get(key, default) for the optional keys of a pallet
Get(field, default) == IF field.present THEN field.val ELSE default

\* lines 178-186: the descriptor appended for pallet p
PalletEntry(p) ==
    [type |-> p.type,
     color |-> Get(p.color, "#8B4513"),
     dims |-> [length |-> Get(p.length_cm, 0),
               width |-> Get(p.width_cm, 0),
               height |-> Get(p.height_cm, 0)]]

\* the comparison without the floor
Matches_AnyFloor(pos, row, col, floor) ==
    pos.row = row + 1 /\ pos.col = col + 1

\* line 177
Matches(pos, row, col, floor) ==
    pos.floor = floor + 1 /\ pos.row = row + 1 /\ pos.col = col + 1

\* lines 175-186: the loop over the pallets, from pallet number k on; acc is
\* the slot's 'pallets' list so far (<<>> stands for the key being absent)
RECURSIVE AttachPallets(_, _, _, _, _, _)
AttachPallets(ps, k, row, col, floor, acc) ==
    IF k > Len(ps) THEN acc
    ELSE AttachPallets(ps, k + 1, row, col, floor,
            IF Matches(ps[k].position, row, col, floor)
            THEN Append(acc, PalletEntry(ps[k]))
            ELSE acc)

\* lines 155-186
aisle_entry(cfg, idx, row, col, floor, x) ==
    [id |-> <<"aisle", idx, row, col, floor>>,
     position |-> [x |-> x, y |-> aisle_y(cfg, idx, row), z |-> aisle_z(cfg, idx, floor)],
     dimensions |-> [width |-> aisle_w(cfg, idx),
                     length |-> aisle_l(cfg, idx),
                     height |-> floor_h(cfg, idx)],
     indices |-> [floor |-> floor + 1, row |-> row + 1, col |-> col + 1],
     pallets |-> AttachPallets(pallet_configs(cfg, idx), 1, row, col, floor, <<>>)]

\* lines 193-207
workstation_entry(cfg, idx, aisles) ==
    [id |-> <<"workstation", idx + 1>>,
     workstation_index |-> idx,
     position |-> [x |-> workstation_start_x(cfg, idx), y |-> Zero, z |-> Zero],
     dimensions |-> [width |-> workstation_w(cfg), length |-> L(cfg), height |-> H(cfg)],
     aisles |-> aisles]

\* lines 210-217
Layout(cfg, workstations) ==
    [kind |-> "layout",
     warehouse_dimensions |-> [width |-> W(cfg), length |-> L(cfg), height |-> H(cfg)],
     workstations |-> workstations]

----------------------------------------------------------------------------
(* create_warehouse_layout: the steps of one call *)

\* lines 35-64
Begin ==
    /\ pc = "start"
    /\ IF GlobalChecks(config).kind = "raise"
       THEN /\ outcome' = GlobalChecks(config)
            /\ pc' = "done"
       ELSE /\ outcome' = outcome
            /\ pc' = "workstation"
    /\ i' = 0
    /\ workstations_data' = <<>>
    /\ UNCHANGED <<config, r, c, f, current_x, aisles_data, tc_value, tc_unit, tc_result>>

\* lines 66-136: the next element of workstation_configs, its checks
WorkstationBegin ==
    /\ pc = "workstation"
    /\ i < Len(config.workstation_configs)
    /\ IF WorkstationChecks(config, i).kind = "raise"
       THEN /\ outcome' = WorkstationChecks(config, i)
            /\ pc' = "done"
       ELSE /\ outcome' = outcome
            /\ pc' = "row"
    /\ aisles_data' = <<>>
    /\ r' = 0
    /\ UNCHANGED <<config, i, c, f, current_x, workstations_data,
                   tc_value, tc_unit, tc_result>>

\* lines 139-144
RowBegin ==
    /\ pc = "row"
    /\ r < rows(config, i)
    /\ current_x' = row_start_x(config, i, r, current_x)
    /\ c' = 0
    /\ pc' = "aisle"
    /\ UNCHANGED <<config, i, r, f, aisles_data, workstations_data, outcome,
                   tc_value, tc_unit, tc_result>>

\* lines 146-149
AisleBegin ==
    /\ pc = "aisle"
    /\ c < num_aisles(config, i)
    /\ current_x' = AfterGap(config, i, c, current_x)
    /\ f' = 0
    /\ pc' = "floor"
    /\ UNCHANGED <<config, i, r, c, aisles_data, workstations_data, outcome,
                   tc_value, tc_unit, tc_result>>

\* lines 152-188
EmitAisle ==
    /\ pc = "floor"
    /\ f < floors(config, i)
    /\ aisles_data' = Append(aisles_data, aisle_entry(config, i, r, c, f, current_x))
    /\ f' = f + 1
    /\ UNCHANGED <<config, pc, i, r, c, current_x, workstations_data, outcome,
                   tc_value, tc_unit, tc_result>>

\* line 191
AisleEnd ==
    /\ pc = "floor"
    /\ f = floors(config, i)
    /\ current_x' = RAdd(current_x, aisle_w(config, i))
    /\ c' = c + 1
    /\ pc' = "aisle"
    /\ UNCHANGED <<config, i, r, f, aisles_data, workstations_data, outcome,
                   tc_value, tc_unit, tc_result>>

\* line 146 exhausted: back to line 139
RowEnd ==
    /\ pc = "aisle"
    /\ c = num_aisles(config, i)
    /\ r' = r + 1
    /\ pc' = "row"
    /\ UNCHANGED <<config, i, c, f, current_x, aisles_data, workstations_data, outcome,
                   tc_value, tc_unit, tc_result>>

\* lines 193-207
WorkstationEnd ==
    /\ pc = "row"
    /\ r = rows(config, i)
    /\ workstations_data' = Append(workstations_data, workstation_entry(config, i, aisles_data))
    /\ i' = i + 1
    /\ pc' = "workstation"
    /\ UNCHANGED <<config, r, c, f, current_x, aisles_data, outcome,
                   tc_value, tc_unit, tc_result>>

\* lines 210-217
Return ==
    /\ pc = "workstation"
    /\ i = Len(config.workstation_configs)
    /\ outcome' = Layout(config, workstations_data)
    /\ pc' = "done"
    /\ UNCHANGED <<config, i, r, c, f, current_x, aisles_data, workstations_data,
                   tc_value, tc_unit, tc_result>>

Next ==
    \/ Begin
    \/ WorkstationBegin
    \/ RowBegin
    \/ AisleBegin
    \/ EmitAisle
    \/ AisleEnd
    \/ RowEnd
    \/ WorkstationEnd
    \/ Return

----------------------------------------------------------------------------
(* A direct call of to_cm *)

\* lines 14-21
ToCmCall ==
    /\ pc = "to_cm"
    /\ tc_result' = to_cm(tc_value, tc_unit)
    /\ pc' = "to_cm_done"
    /\ UNCHANGED <<config, i, r, c, f, current_x, aisles_data, workstations_data,
                   outcome, tc_value, tc_unit>>

NextToCm == ToCmCall

----------------------------------------------------------------------------
(* The inputs the model runs the program on *)

SeqsUpTo(S, n) == UNION {[1..m -> S] : m \in 0..n}

Present(x) == [present |-> TRUE, val |-> x]
Missing == [present |-> FALSE]
Items(xs) == [present |-> TRUE, items |-> xs]
NoItems == [present |-> FALSE]

cm == Str(<<"c", "m">>)

\* values and units for to_cm
Chars == {"1", "5", ".", "-", "a"}
ToCmValues ==
    {None, Obj, Num(0), Num(3), Num(-2), NumQ(5, 2)}
        \cup {Str(cs) : cs \in SeqsUpTo(Chars, MaxStrLen)}
ToCmUnits ==
    {None} \cup {Str(u) : u \in {<<"c", "m">>, <<"m">>, <<"M">>, <<"k", "m">>, <<"K", "m">>,
                                 <<"i", "n">>, <<"f", "t">>, <<"F", "T">>, <<"y", "d">>,
                                 <<"m", "m">>, <<"U", "N", "K", "N", "O", "W", "N">>, <<>>}}

\* warehouse dimensions: the 1000 x 500 x 300 cm warehouse; the same kind of
\* box given in metres with a string; one too low for two floors; unusable ones
WarehouseDims ==
    {[width |-> Num(1000), length |-> Num(500), height |-> Num(300), unit |-> cm],
     [width |-> Str(<<"1", ".", "5">>), length |-> Num(2), height |-> NumQ(3, 20),
      unit |-> Str(<<"M">>)],
     [width |-> None, length |-> Num(500), height |-> Num(300), unit |-> cm],
     [width |-> Num(1000), length |-> Num(-1), height |-> Num(300), unit |-> cm],
     [width |-> Num(1000), length |-> Num(500), height |-> Obj, unit |-> cm]}

GoodDims == [width |-> Num(1000), length |-> Num(500), height |-> Num(300), unit |-> cm]

WorkstationGaps == {Num(0), Num(50), Num(-5), Num(1000), Obj}

\* wall gaps: front, back, left, right, unit
Walls(gfv, gbv, glv, grv, u) ==
    [gap_front |-> gfv, gap_back |-> gbv, gap_left |-> glv, gap_right |-> grv,
     wall_gap_unit |-> u]

PlainWalls == Walls(Num(10), Num(20), Num(5), Num(15), cm)

WallChoices ==
    {PlainWalls,
     Walls(Num(0), Num(0), Num(0), Num(0), cm),
     Walls(Num(0), Num(0), Num(-10), Num(0), cm),           \* negative left gap
     Walls(Num(-10), Num(0), Num(0), Num(0), cm),           \* negative front gap
     Walls(Num(1), None, Str(<<"2", ".", "5">>), Str(<<"a">>), Str(<<"m">>)),
     Walls(Num(0), Num(0), Num(600), Num(600), cm),         \* left/right consume the width
     Walls(Num(300), Num(300), Num(0), Num(0), cm),         \* front/back consume the length
     Walls(Num(0), Num(0), Num(473), Num(0), cm),           \* 2 cm left of a 475 cm workstation
     Walls(Num(0), NumQ(9991, 20), Num(0), Num(0), cm),     \* 0.45 cm left of the length
     Walls(Num(0), NumQ(9991, 20), Num(473), Num(0), cm),   \* both of the above
     Walls(Num(0), Num(0), Obj, Num(0), cm)}

GapValues == {Num(10), Num(-20), Num(1000), Str(<<"a">>)}
GapLists == {NoItems} \cup {Items(gs) : gs \in SeqsUpTo(GapValues, MaxGaps)}

AisleConfig(walls, nr, nf, na, gaps) ==
    [gap_front |-> walls.gap_front, gap_back |-> walls.gap_back,
     gap_left |-> walls.gap_left, gap_right |-> walls.gap_right,
     wall_gap_unit |-> walls.wall_gap_unit,
     num_rows |-> nr, num_floors |-> nf, num_aisles |-> na, custom_gaps |-> gaps]

Workstation(arc, pallets) == [aisle_config |-> arc, pallet_configs |-> pallets]

\* a workstation every check accepts, with one gap between its two aisles
Baseline ==
    Workstation(AisleConfig(PlainWalls, 1, 1, 2, Items(<<Num(10)>>)), NoItems)

\* workstation configs that differ from each other in one respect at a time
RichWorkstations ==
    {Workstation(AisleConfig(w, g[1], g[2], g[3], NoItems), NoItems) :
        w \in WallChoices, g \in {<<1, 1, 1>>, <<MaxRows, MaxFloors, MaxAisles>>}}
    \cup
    {Workstation(AisleConfig(w, nr, nf, na, NoItems), NoItems) :
        w \in {PlainWalls}, nr \in 0..MaxRows, nf \in 0..MaxFloors, na \in 0..MaxAisles}
    \cup
    {Workstation(AisleConfig(PlainWalls, 1, 1, na, gs), NoItems) :
        na \in 1..MaxAisles, gs \in GapLists}
    \cup
    {Workstation(AisleConfig(Walls(Num(0), Num(0), Num(0), Num(0), cm), MaxRows, 1, na,
                             Items(gs)), NoItems) :
        na \in 2..MaxAisles, gs \in {<<Num(-20)>>, <<Num(-600)>>, <<Num(10), Num(1000)>>,
                                     <<Num(1000)>>, <<Obj>>, <<Num(454)>>}}

SmallWorkstations ==
    {Baseline,
     Workstation(AisleConfig(PlainWalls, 1, 0, 1, NoItems), NoItems),
     Workstation(AisleConfig(Walls(Num(0), Num(0), Num(-10), Num(0), cm), 1, 1, 1, NoItems),
                 NoItems)}

\* a list of m workstation configs: w at place j, Baseline elsewhere
OneRich(m, j, w) == [k \in 1..m |-> IF k = j THEN w ELSE Baseline]

Config(dims, n, gap, wss) ==
    [warehouse_dimensions |-> dims, num_workstations |-> n,
     workstation_gap |-> gap, workstation_gap_unit |-> cm,
     workstation_configs |-> wss]

\* every warehouse, count and gap, over the lists of SmallWorkstations
IsPlainConfig(cfg) ==
    \E d \in WarehouseDims, n \in 0..MaxWorkstations, g \in WorkstationGaps :
        \E wss \in SeqsUpTo(SmallWorkstations, MaxWorkstations) :
            cfg = Config(d, n, g, wss)

\* one workstation config of RichWorkstations at any place of the list, in
\* the 1000 cm warehouse split MaxWorkstations ways and in every warehouse
\* left whole
IsRichConfig(cfg) ==
    \E m \in 1..MaxWorkstations :
        \E j \in 1..m, w \in RichWorkstations :
            \/ cfg = Config(GoodDims, MaxWorkstations, Num(50), OneRich(m, j, w))
            \/ \E d \in WarehouseDims : cfg = Config(d, 1, Num(0), OneRich(m, j, w))

----------------------------------------------------------------------------
(* Inputs with pallets *)

Position(nf, nr, nc) == [floor |-> nf, row |-> nr, col |-> nc]

Pallet(type, color, len, pos) ==
    [type |-> type, color |-> color, length_cm |-> len, width_cm |-> Missing,
     height_cm |-> Missing, position |-> pos]

PalletPositions ==
    {Position(1, 1, 1), Position(2, 1, 1), Position(1, 2, 1), Position(1, 1, 2),
     Position(MaxFloors, MaxRows, MaxAisles),
     Position(0, 1, 1), Position(1, 1, MaxAisles + 1)}      \* the last two: no such slot

Pallets ==
    {Pallet("euro", Missing, Missing, pos) : pos \in PalletPositions}
    \cup {Pallet("block", Present("#FF0000"), Present(120), pos) :
             pos \in {Position(1, 1, 1), Position(0, 1, 1)}}

FullGrid(pallets) ==
    Workstation(AisleConfig(PlainWalls, MaxRows, MaxFloors, MaxAisles, NoItems), pallets)

\* a second workstation with pallets of its own: one in its only slot, one
\* declared at a slot it does not have
OtherStocked ==
    Workstation(AisleConfig(PlainWalls, 1, 1, 1, NoItems),
                Items(<<Pallet("drum", Missing, Missing, Position(1, 1, 1)),
                        Pallet("drum", Missing, Missing, Position(1, 1, 2))>>))

PalletLists == {NoItems} \cup {Items(ps) : ps \in SeqsUpTo(Pallets, MaxPallets)}

IsPalletConfig(cfg) ==
    \E ps \in PalletLists :
        \/ cfg = Config(GoodDims, 1, Num(0), <<FullGrid(ps)>>)
        \/ cfg = Config(GoodDims, 2, Num(50), <<OtherStocked, FullGrid(ps)>>)
        \/ cfg = Config(GoodDims, 1, Num(0),
                        <<Workstation(AisleConfig(PlainWalls, 0, 1, 1, NoItems), ps)>>)

----------------------------------------------------------------------------
(* Specifications *)

Idle(at) ==
    /\ pc = at
    /\ i = 0 /\ r = 0 /\ c = 0 /\ f = 0
    /\ current_x = Zero
    /\ aisles_data = <<>>
    /\ workstations_data = <<>>
    /\ outcome = NoOutcome

Init ==
    /\ IsPlainConfig(config) \/ IsRichConfig(config)
    /\ Idle("start")
    /\ tc_value = None /\ tc_unit = None /\ tc_result = NoOutcome

Spec == Init /\ [][Next]_vars

InitToCm ==
    /\ config = Config(GoodDims, 1, Num(0), <<>>)
    /\ Idle("to_cm")
    /\ tc_value \in ToCmValues
    /\ tc_unit \in ToCmUnits
    /\ tc_result = NoOutcome

SpecToCm == InitToCm /\ [][NextToCm]_vars

InitPallets ==
    /\ IsPalletConfig(config)
    /\ Idle("start")
    /\ tc_value = None /\ tc_unit = None /\ tc_result = NoOutcome

SpecPallets == InitPallets /\ [][Next]_vars

----------------------------------------------------------------------------
(* Claims *)

Returned == outcome.kind = "layout"
Raised == outcome.kind = "raise"

RECURSIVE SumWidths(_)
SumWidths(s) ==
    IF s = <<>> THEN Zero ELSE RAdd(Head(s).dimensions.width, SumWidths(Tail(s)))

RightEdge(e) == RAdd(e.position.x, e.dimensions.width)

\* the widths of the returned workstations and the gaps between them add up
\* to the warehouse width, workstation k (0-based) starts at k*(width+gap)
\* and the last one ends at W
WidthsFillWarehouse ==
    LET ws == outcome.workstations
        n == Len(ws)
    IN  /\ RAdd(SumWidths(ws), RMul(bg(config), Int2Rat(n - 1)))
              = outcome.warehouse_dimensions.width
        /\ \A k \in 1..n :
              ws[k].position.x
                  = RMul(Int2Rat(k - 1), RAdd(ws[k].dimensions.width, bg(config)))
        /\ n > 0 /\ RightEdge(ws[n]) = outcome.warehouse_dimensions.width

\* C1 as stated: whenever a layout is returned, the workstation widths plus
\* the gaps between them equal the warehouse width and the last workstation
\* ends at x = W, whatever the length of workstation_configs
C1_AsClaimed == Returned => WidthsFillWarehouse

\* C1 amended: the same, for the configurations whose workstation_configs
\* holds exactly num_workstations entries
C1_WidthsFillWarehouse ==
    (Returned /\ Len(config.workstation_configs) = config.num_workstations)
        => WidthsFillWarehouse

\* the 1000 cm warehouse with two workstations and a 50 cm gap: 475 cm each,
\* at x = 0 and x = 525
C1_Witness ==
    /\ Returned
    /\ config.num_workstations = 2
    /\ Len(outcome.workstations) = 2
    /\ bg(config) = <<50, 1>>
    /\ outcome.warehouse_dimensions.width = <<1000, 1>>
    /\ outcome.workstations[1].dimensions.width = <<475, 1>>
    /\ outcome.workstations[1].position.x = <<0, 1>>
    /\ outcome.workstations[2].position.x = <<525, 1>>


Done == pc = "done"

NonNegative(pos) == RLe(Zero, pos.x) /\ RLe(Zero, pos.y) /\ RLe(Zero, pos.z)

\* C2 as stated: in every returned layout the position of every workstation
\* and of every aisle slot has x >= 0, y >= 0 and z >= 0
C2_AsClaimed ==
    Returned =>
        \A k \in 1..Len(outcome.workstations) :
            /\ NonNegative(outcome.workstations[k].position)
            /\ \A j \in 1..Len(outcome.workstations[k].aisles) :
                  NonNegative(outcome.workstations[k].aisles[j].position)

\* C3 as stated: to_cm never raises; it returns 0.0 for None and for a value
\* that is not a real number, and numeric(value) * factor(unit) otherwise,
\* the factor looked up case-insensitively and 1 for an unknown unit
C3_AsClaimed ==
    pc = "to_cm_done" =>
        /\ tc_result.ok
        /\ tc_result.v =
              IF tc_value.k = "num" THEN
                  RMul(tc_value.v,
                       IF tc_unit.k = "str" THEN conversion_factors(Lower(tc_unit.s))
                       ELSE <<1, 1>>)
              ELSE IF tc_value.k = "str" /\ ParseFloat(tc_value.s).ok THEN
                  RMul(ParseFloat(tc_value.s).v,
                       IF tc_unit.k = "str" THEN conversion_factors(Lower(tc_unit.s))
                       ELSE <<1, 1>>)
              ELSE Zero

----------------------------------------------------------------------------
(* The checks of create_warehouse_layout, each stated on its own *)

DimsConvert(cfg) == W_cm(cfg).ok /\ L_cm(cfg).ok /\ H_cm(cfg).ok
DimsPositive(cfg) == RLt(Zero, W(cfg)) /\ RLt(Zero, L(cfg)) /\ RLt(Zero, H(cfg))
CountPositive(cfg) == cfg.num_workstations >= 1
GapNotNegative(cfg) == RLe(Zero, bg(cfg))
GapsBelowWidth(cfg) == RLt(RMul(bg(cfg), Int2Rat(cfg.num_workstations - 1)), W(cfg))
WidthPositive(cfg) ==
    RLt(Zero, RDivInt(RSub(W(cfg), RMul(bg(cfg), Int2Rat(cfg.num_workstations - 1))),
                      cfg.num_workstations))

GlobalPass(cfg) ==
    /\ DimsConvert(cfg) /\ DimsPositive(cfg)
    /\ bg_cm(cfg).ok
    /\ CountPositive(cfg) /\ GapNotNegative(cfg)
    /\ GapsBelowWidth(cfg) /\ WidthPositive(cfg)

WallsConvert(cfg, k) ==
    gf_cm(cfg, k).ok /\ gb_cm(cfg, k).ok /\ gl_cm(cfg, k).ok /\ gr_cm(cfg, k).ok
AvailPositive(cfg, k) == RLt(Zero, avail_w(cfg, k)) /\ RLt(Zero, avail_l(cfg, k))
CountsPositive(cfg, k) ==
    /\ rc(cfg, k).num_rows >= 1
    /\ rc(cfg, k).num_floors >= 1
    /\ rc(cfg, k).num_aisles >= 1
GapsConvert(cfg, k) ==
    \A j \in 1..Len(raw_custom_gaps(cfg, k)) : custom_gaps_cm(cfg, k)[j].ok

\* the custom gaps between the num_aisles slots: the first num_aisles - 1
EffectiveGaps(cfg, k) == Prefix(custom_gaps(cfg, k), rc(cfg, k).num_aisles - 1)
GapSumBelowAvail(cfg, k) == RLt(RSum(EffectiveGaps(cfg, k)), avail_w(cfg, k))

SlotWidth(cfg, k) ==
    RDivInt(RSub(avail_w(cfg, k), RSum(EffectiveGaps(cfg, k))), rc(cfg, k).num_aisles)
SlotLength(cfg, k) == RDivInt(avail_l(cfg, k), rc(cfg, k).num_rows)
FloorHeight(cfg, k) == RDivInt(H(cfg), rc(cfg, k).num_floors)

WidthBelowMin(cfg, k) == RLt(SlotWidth(cfg, k), <<1, 1>>)
LengthBelowMin(cfg, k) == RLt(SlotLength(cfg, k), <<1, 1>>)
HeightBelowMin(cfg, k) == RLt(FloorHeight(cfg, k), <<10, 1>>)
SlotMinima(cfg, k) ==
    ~WidthBelowMin(cfg, k) /\ ~LengthBelowMin(cfg, k) /\ ~HeightBelowMin(cfg, k)

\* everything checked for workstation k before its slots are sized
ReachesSizing(cfg, k) ==
    /\ WallsConvert(cfg, k) /\ AvailPositive(cfg, k) /\ CountsPositive(cfg, k)
    /\ GapsConvert(cfg, k) /\ GapSumBelowAvail(cfg, k)

WorkstationPass(cfg, k) == ReachesSizing(cfg, k) /\ SlotMinima(cfg, k)

AllChecksPass(cfg) ==
    /\ GlobalPass(cfg)
    /\ \A k \in 0..(Len(cfg.workstation_configs) - 1) : WorkstationPass(cfg, k)

\* the call gets as far as the checks of workstation k
Reaches(cfg, k) ==
    /\ GlobalPass(cfg)
    /\ k < Len(cfg.workstation_configs)
    /\ \A j \in 0..(k - 1) : WorkstationPass(cfg, j)

\* C4: a layout is returned only if every check passed for every workstation
\* config; if one fails, for any workstation, the call ends with an error and
\* no layout, also after earlier workstations were laid out
C4_NoLayoutUnlessAllChecksPass ==
    /\ Returned => AllChecksPass(config)
    /\ (Done /\ ~AllChecksPass(config)) => Raised
    /\ ~Done => outcome = NoOutcome

\* the second workstation fails a check after the first was laid out
C4_Witness ==
    /\ Done /\ Raised /\ outcome.ws = 2
    /\ Len(workstations_data) = 1
    /\ Len(workstations_data[1].aisles) > 0


----------------------------------------------------------------------------
(* Slots of a laid-out workstation *)

Range(s) == {s[k] : k \in 1..Len(s)}

\* the slots of workstation entry ws with the given 1-based indices
SlotsAt(ws, row, col, floor) ==
    {j \in 1..Len(ws.aisles) :
        ws.aisles[j].indices = [floor |-> floor, row |-> row, col |-> col]}
SlotAt(ws, row, col, floor) ==
    ws.aisles[CHOOSE j \in SlotsAt(ws, row, col, floor) : TRUE]

\* the gap the placement left in front of column col >= 2 of a row
InsertedGap(ws, row, col, floor) ==
    RSub(SlotAt(ws, row, col, floor).position.x, RightEdge(SlotAt(ws, row, col - 1, floor)))

RECURSIVE RowWidths(_, _, _, _)
RowWidths(ws, row, floor, col) ==
    IF col = 0 THEN Zero
    ELSE RAdd(RowWidths(ws, row, floor, col - 1), SlotAt(ws, row, col, floor).dimensions.width)

RECURSIVE RowGaps(_, _, _, _)
RowGaps(ws, row, floor, col) ==
    IF col <= 1 THEN Zero
    ELSE RAdd(RowGaps(ws, row, floor, col - 1), InsertedGap(ws, row, col, floor))

\* C5: in every (row, floor) of every returned workstation the slot widths
\* plus the gaps left between the slots equal avail_w, the last slot ends at
\* workstation_start_x + workstation_w - gap_right, and the gap left in front
\* of column k is the custom gap k-1 used for sizing (0 where the list ends)
C5_SlotsFillAvailableWidth ==
    Returned =>
        \A k \in 1..Len(outcome.workstations) :
            LET ws == outcome.workstations[k]
                na == rc(config, k - 1).num_aisles
            IN  \A row \in 1..rc(config, k - 1).num_rows :
                \A floor \in 1..rc(config, k - 1).num_floors :
                    /\ \A col \in 1..na : Cardinality(SlotsAt(ws, row, col, floor)) = 1
                    /\ RAdd(RowWidths(ws, row, floor, na), RowGaps(ws, row, floor, na))
                          = avail_w(config, k - 1)
                    /\ RightEdge(SlotAt(ws, row, na, floor))
                          = RSub(RAdd(ws.position.x, ws.dimensions.width), gr(config, k - 1))
                    /\ \A col \in 2..na :
                          InsertedGap(ws, row, col, floor)
                              = IF col - 1 <= Len(custom_gaps(config, k - 1))
                                THEN custom_gaps(config, k - 1)[col - 1]
                                ELSE Zero

\* a returned workstation with three aisles, a custom_gaps list longer than
\* the two gaps between them, and non-zero gaps
C5_Witness ==
    /\ Returned
    /\ \E k \in 1..Len(outcome.workstations) :
          /\ rc(config, k - 1).num_aisles = 3
          /\ Len(custom_gaps(config, k - 1)) >= 2
          /\ custom_gaps(config, k - 1)[1] # Zero
          /\ workstation_start_x(config, k - 1) # Zero


AllSlots(layout) ==
    UNION {Range(layout.workstations[k].aisles) : k \in 1..Len(layout.workstations)}

SlotsClearMinima ==
    \A e \in AllSlots(outcome) :
        /\ RLe(<<1, 1>>, e.dimensions.width)
        /\ RLe(<<1, 1>>, e.dimensions.length)
        /\ RLe(<<10, 1>>, e.dimensions.height)

TooSmall(what, k) == Exc("ValueError", what, k + 1)

\* C7 as stated: every returned slot is at least 1 x 1 x 10 cm, and whenever
\* a workstation's computed slot width, slot length or floor height is below
\* its minimum the call raises the 'too small' error naming that workstation
\* and that quantity
C7_AsClaimed ==
    /\ Returned => SlotsClearMinima
    /\ Done =>
        \A k \in 0..(Len(config.workstation_configs) - 1) :
            (Reaches(config, k) /\ ReachesSizing(config, k)) =>
                /\ WidthBelowMin(config, k)
                      => outcome = TooSmall("aisle width is too small", k)
                /\ LengthBelowMin(config, k)
                      => outcome = TooSmall("aisle length is too small", k)
                /\ HeightBelowMin(config, k)
                      => outcome = TooSmall("floor/aisle height is too small", k)

\* C7 amended: every returned slot is at least 1 x 1 x 10 cm, and whenever
\* the call gets as far as sizing a workstation's slots and the slot width,
\* slot length or floor height is below its minimum, it raises the 'too small'
\* error naming that workstation and the first such quantity in the order
\* width, length, height
C7_FirstTooSmallQuantityNamed ==
    /\ Returned => SlotsClearMinima
    /\ Done =>
        \A k \in 0..(Len(config.workstation_configs) - 1) :
            (Reaches(config, k) /\ ReachesSizing(config, k) /\ ~SlotMinima(config, k)) =>
                outcome =
                    IF WidthBelowMin(config, k)
                        THEN TooSmall("aisle width is too small", k)
                    ELSE IF LengthBelowMin(config, k)
                        THEN TooSmall("aisle length is too small", k)
                    ELSE TooSmall("floor/aisle height is too small", k)

\* 2 cm of available width for three aisles, in the second workstation
C7_Witness ==
    /\ Done
    /\ Reaches(config, 1) /\ ReachesSizing(config, 1)
    /\ avail_w(config, 1) = <<2, 1>>
    /\ rc(config, 1).num_aisles = 3
    /\ outcome = TooSmall("aisle width is too small", 1)

GapSumError(k) ==
    Exc("ValueError", "sum of aisle gaps >= available workstation width", k + 1)

\* C8 as stated: whenever the total of all entries of a workstation's
\* custom_gaps list is >= its avail_w, the call raises and returns no layout
C8_AsClaimed ==
    Done =>
        \A k \in 0..(Len(config.workstation_configs) - 1) :
            (/\ GlobalPass(config) /\ WallsConvert(config, k) /\ GapsConvert(config, k)
             /\ RLe(avail_w(config, k), RSum(custom_gaps(config, k))))
                => Raised

\* C8 amended: whenever the total of the first num_aisles - 1 entries of a
\* workstation's custom_gaps list is >= its avail_w, the call ends with an
\* error and no layout, and the error is the custom-gap error of that
\* workstation when every earlier check passed; later entries count nowhere
C8_EffectiveGapsChecked ==
    Done =>
        \A k \in 0..(Len(config.workstation_configs) - 1) :
            (/\ GlobalPass(config) /\ WallsConvert(config, k) /\ GapsConvert(config, k)
             /\ RLe(avail_w(config, k), RSum(EffectiveGaps(config, k))))
                => /\ Raised
                   /\ (Reaches(config, k) /\ AvailPositive(config, k)
                       /\ CountsPositive(config, k)) => outcome = GapSumError(k)

\* the gap between two aisles is at least the available width
C8_Witness ==
    /\ Done
    /\ \E k \in 0..(Len(config.workstation_configs) - 1) :
          /\ outcome = GapSumError(k)
          /\ rc(config, k).num_aisles = 2
          /\ RLe(avail_w(config, k), custom_gaps(config, k)[1])

\* entry number j (1-based) of a workstation's slot list belongs to row
\* (j-1) div (aisles*floors), aisle ((j-1) mod (aisles*floors)) div floors
\* and floor (j-1) mod floors, all 0-based, when the rows are the outermost
\* loop and the floors the innermost
PlacedAsStated(cfg, k, aisles) ==
    LET x0 == RAdd(workstation_start_x(cfg, k), gl(cfg, k))
        y0 == gf(cfg, k)
        w == aisle_w(cfg, k)
        l == aisle_l(cfg, k)
        h == floor_h(cfg, k)
        gaps == custom_gaps(cfg, k)
        na == num_aisles(cfg, k)
        nf == floors(cfg, k)
    IN  \A j \in 1..Len(aisles) :
            LET row == (j - 1) \div (na * nf)
                col == ((j - 1) % (na * nf)) \div nf
                floor == (j - 1) % nf
            IN  /\ aisles[j].indices
                      = [floor |-> floor + 1, row |-> row + 1, col |-> col + 1]
                /\ aisles[j].position.x
                      = RAdd(RAdd(x0, RMul(Int2Rat(col), w)), RSum(Prefix(gaps, col)))
                /\ aisles[j].position.y = RAdd(y0, RMul(Int2Rat(row), l))
                /\ aisles[j].position.z = RMul(Int2Rat(floor), h)

\* C9: slots are emitted rows outermost, then aisles, then floors, and slot
\* (row r+1, col k, floor f+1) lies at x = workstation_start_x + gap_left +
\* (k-1)*aisle_w + the custom gaps in front of it, y = gap_front + r*aisle_l,
\* z = f*floor_h; x is the same in every row and floor, and a finished
\* workstation holds every (row, col, floor) once.  The slots being emitted
\* are looked at in every state of the loops, the finished workstations
\* between two workstations and at the end
C9_PlacementLoop ==
    /\ pc \in {"workstation", "done"} =>
        \A k \in 1..Len(workstations_data) :
          /\ PlacedAsStated(config, k - 1, workstations_data[k].aisles)
          /\ Len(workstations_data[k].aisles)
                = rows(config, k - 1) * num_aisles(config, k - 1) * floors(config, k - 1)
    /\ pc \in {"row", "aisle", "floor"} =>
          /\ PlacedAsStated(config, i, aisles_data)
          /\ pc = "floor" =>
                Len(aisles_data) = (r * num_aisles(config, i) + c) * floors(config, i) + f
    /\ Returned => outcome.workstations = workstations_data

\* a finished second workstation with two rows, three aisles, two floors and
\* a non-zero custom gap
C9_Witness ==
    /\ Len(workstations_data) = 2
    /\ rows(config, 1) = 2 /\ num_aisles(config, 1) = 3 /\ floors(config, 1) = 2
    /\ Len(workstations_data[2].aisles) = 12
    /\ workstations_data[2].aisles[12].position.x # workstations_data[2].aisles[1].position.x

Overlap(a, la, b, lb) == RLt(a, RAdd(b, lb)) /\ RLt(b, RAdd(a, la))

BoxesOverlap(d, e) ==
    /\ Overlap(d.position.x, d.dimensions.width, e.position.x, e.dimensions.width)
    /\ Overlap(d.position.y, d.dimensions.length, e.position.y, e.dimensions.length)
    /\ Overlap(d.position.z, d.dimensions.height, e.position.z, e.dimensions.height)

\* C10 as stated: in every returned layout no two distinct slots overlap with
\* positive volume, within a workstation or across workstations
C10_AsClaimed ==
    Returned =>
        \A k1, k2 \in 1..Len(outcome.workstations) :
            \A j1 \in 1..Len(outcome.workstations[k1].aisles) :
            \A j2 \in 1..Len(outcome.workstations[k2].aisles) :
                <<k1, j1>> # <<k2, j2>> =>
                    ~BoxesOverlap(outcome.workstations[k1].aisles[j1],
                                  outcome.workstations[k2].aisles[j2])


\* the numbers of the pallets of the list ps declared at slot e
DeclaredAt(ps, e) ==
    {j \in 1..Len(ps) :
        /\ ps[j].position.row = e.indices.row
        /\ ps[j].position.floor = e.indices.floor
        /\ ps[j].position.col = e.indices.col}

\* the m-th smallest element of a set of numbers
Nth(S, m) == CHOOSE j \in S : Cardinality({x \in S : x < j}) = m - 1

\* C6: within a workstation the pallet list of a slot holds the descriptors
\* of exactly the pallets declared at the slot's (row, floor, col), in input
\* order; a pallet declared at no slot is in no list and raises nothing
C6_PalletsInTheirSlot ==
    /\ \A k \in 1..Len(workstations_data) :
          LET ps == pallet_configs(config, k - 1)
          IN  \A e \in Range(workstations_data[k].aisles) :
                  LET at == DeclaredAt(ps, e)
                  IN  /\ Len(e.pallets) = Cardinality(at)
                      /\ \A m \in 1..Len(e.pallets) :
                            e.pallets[m] = PalletEntry(ps[Nth(at, m)])
    /\ (Done /\ AllChecksPass(config)) => (Returned /\ outcome.workstations = workstations_data)

\* two pallets of different kinds in one slot, in input order, next to a
\* workstation that has a pallet of its own at the same indices and one
\* declared at a slot it does not have
C6_Witness ==
    /\ Returned
    /\ Len(outcome.workstations) = 2
    /\ \E e \in Range(outcome.workstations[2].aisles) :
          /\ Len(e.pallets) = 2
          /\ e.pallets[1].type = "block" /\ e.pallets[2].type = "euro"
          /\ e.pallets[1].color = "#FF0000" /\ e.pallets[2].color = "#8B4513"
          /\ e.indices = [floor |-> 1, row |-> 1, col |-> 1]
    /\ Len(pallet_configs(config, 0)) = 2
    /\ Len(outcome.workstations[1].aisles) = 1
    /\ Len(outcome.workstations[1].aisles[1].pallets) = 1

====
